---- MODULE Spec2Model ----
\* Model of jules-scratch/verification/verify_rbac_frontend.py: the Playwright
\* script that logs into the RBAC front-end, visits the user- and
\* role-management pages, takes two screenshots and closes the browser.
\*
\* The runner (the script) is modelled statement by statement.  The target
\* application is an external collaborator: it is modelled as an environment
\* that may show any page of a small catalogue at any moment.  A blocking
\* Playwright call polls its condition every Tick milliseconds until the
\* condition holds or its timeout has elapsed.
EXTENDS Integers, Sequences, FiniteSets, TLC

VARIABLES
    pc,         \* the statement the script is at
    waited,     \* milliseconds the current blocking call has waited so far
    driver,     \* the Playwright driver of `with sync_playwright()`
    browser,    \* the browser instance: "none", "open", "closed", "killed"
    contexts,   \* number of live browsing contexts
    pages,      \* number of live pages
    launches,   \* number of chromium.launch() calls that returned a browser
    closes,     \* number of browser.close() calls made
    exc,        \* the exception in flight, "none" when there is none
    failedAt,   \* the step (1..14) that raised, 0 when none did
    executed,   \* the steps that have run to an outcome, in order
    typed,      \* the <<placeholder, text>> pairs sent by fill()
    shots,      \* the screenshot files written, in order
    page,       \* what the application currently shows in the page
    rootSeen    \* the address was the application root after the Login click

vars == <<pc, waited, driver, browser, contexts, pages, launches, closes,
          exc, failedAt, executed, typed, shots, page, rootSeen>>

-----------------------------------------------------------------------------
\* Literals of the script

LoginUrl == "http://localhost:3002/login"
RootUrl == "http://localhost:3002/"
UserShotPath == "jules-scratch/verification/user-management-page.png"
RoleShotPath == "jules-scratch/verification/role-management-page.png"

\* timeout=10000 of expect(page).to_have_url
UrlTimeout == 10000
\* the framework defaults used by the calls that pass no timeout
ActionTimeout == 30000
ExpectTimeout == 5000

\* Polling granularity of a blocking call, in milliseconds
Tick == 5000

-----------------------------------------------------------------------------
\* The target application, as seen through the page

Elements == {"ph_Username", "ph_Password", "btn_Login", "txt_Dashboard",
             "lnk_Users", "lnk_Roles", "h_UserManagement", "h_RoleManagement"}

\* A document: its address and how many elements each locator matches
Doc(url, once, twice) ==
    [url |-> url,
     dom |-> [e \in Elements |->
                 IF e \in twice THEN 2 ELSE IF e \in once THEN 1 ELSE 0]]

Blank == Doc("about:blank", {}, {})
Nav == {"lnk_Users", "lnk_Roles"}

AppPages ==
    { Doc(LoginUrl, {"ph_Username", "ph_Password", "btn_Login"}, {}),
      Doc(LoginUrl, {"ph_Username", "ph_Password"}, {"btn_Login"}),
      Doc(RootUrl, {"txt_Dashboard"} \cup Nav, {}),
      Doc(RootUrl, Nav, {"txt_Dashboard"}),
      Doc(RootUrl, {}, {}),
      Doc("http://localhost:3002/users", {"h_UserManagement"} \cup Nav, {}),
      Doc("http://localhost:3002/users", Nav, {}),
      Doc("http://localhost:3002/roles", {"h_RoleManagement"} \cup Nav, {}) }

-----------------------------------------------------------------------------
\* The statements of the script, in program order, and the step each belongs to

Script == << "launch", "new_context", "new_page", "goto", "fill_username",
             "fill_password", "click_login", "expect_url", "expect_dashboard",
             "click_users", "expect_um", "shot_um", "click_roles",
             "expect_rm", "shot_rm", "finally" >>

StepOf == [ launch |-> 1, new_context |-> 2, new_page |-> 2, goto |-> 3,
            fill_username |-> 4, fill_password |-> 5, click_login |-> 6,
            expect_url |-> 7, expect_dashboard |-> 8, click_users |-> 9,
            expect_um |-> 10, shot_um |-> 11, click_roles |-> 12,
            expect_rm |-> 13, shot_rm |-> 14 ]

TryBlock == { "goto", "fill_username", "fill_password", "click_login",
              "expect_url", "expect_dashboard", "click_users", "expect_um",
              "shot_um", "click_roles", "expect_rm", "shot_rm" }

IndexOf(p) == CHOOSE i \in DOMAIN Script : Script[i] = p

NextPc_SkipsUserShot(p) ==
    IF p = "expect_um" THEN "click_roles" ELSE Script[IndexOf(p) + 1]

NextPc_SkipsHeadingCheck(p) ==
    IF p = "click_users" THEN "shot_um" ELSE Script[IndexOf(p) + 1]

\* The statement that runs after statement p returns
NextPc(p) == Script[IndexOf(p) + 1]

Handler_CloseOnSuccessOnly(p) == "raised"

Handler_Retries(p) == IF p \in TryBlock THEN p ELSE "raised"

\* Where control goes when statement p raises: the finally clause when p is
\* inside the try block, out of run() otherwise
Handler(p) == IF p \in TryBlock THEN "finally" ELSE "raised"

-----------------------------------------------------------------------------
Init ==
    /\ pc = "enter"
    /\ waited = 0
    /\ driver = "off"
    /\ browser = "none"
    /\ contexts = 0
    /\ pages = 0
    /\ launches = 0
    /\ closes = 0
    /\ exc = "none"
    /\ failedAt = 0
    /\ executed = << >>
    /\ typed = << >>
    /\ shots = << >>
    /\ page = Blank
    /\ rootSeen = FALSE

-----------------------------------------------------------------------------
\* Outcomes of a statement

\* Statement of step k returned: control moves to the next statement
Succeed(k) ==
    /\ pc' = NextPc(pc)
    /\ waited' = 0
    /\ executed' = Append(executed, k)
    /\ UNCHANGED <<exc, failedAt>>

\* Statement of step k raised e: control unwinds to the handler
Raise(k, e) ==
    /\ pc' = Handler(pc)
    /\ waited' = 0
    /\ executed' = Append(executed, k)
    /\ exc' = e
    /\ failedAt' = k

\* The blocking call polls again after Tick milliseconds
KeepWaiting ==
    /\ waited' = waited + Tick
    /\ UNCHANGED <<pc, executed, exc, failedAt>>

\* One poll of a strict locator with the given timeout: the locator matches
\* exactly one element ("hit"), more than one ("strict"), or none, and then the
\* call waits while the timeout allows and times out otherwise
Resolve(loc, timeout) ==
    IF page.dom[loc] = 1 THEN "hit"
    ELSE IF page.dom[loc] > 1 THEN "strict"
    ELSE IF waited + Tick <= timeout THEN "wait"
    ELSE "timeout"

UrlMatches_AnyAddress(expected) == TRUE

\* to_have_url: the page's address equals the expected one
UrlMatches(expected) == page.url = expected

UserShotOptions_FullPage == [path |-> UserShotPath, full_page |-> TRUE]

\* page.screenshot(path=...) of line 22: full_page is not passed and keeps
\* the framework default, False
UserShotOptions == [path |-> UserShotPath, full_page |-> FALSE]

\* page.screenshot(path=...) of line 27
RoleShotOptions == [path |-> RoleShotPath, full_page |-> FALSE]

CloseBrowser_LeavesContext ==
    /\ browser' = "closed"
    /\ closes' = closes + 1
    /\ UNCHANGED <<contexts, pages, page>>

\* browser.close(): the browser and every context and page of it are closed
CloseBrowser ==
    /\ browser' = "closed"
    /\ closes' = closes + 1
    /\ contexts' = 0
    /\ pages' = 0
    /\ page' = Blank

FinallyExit_Swallows(e) == "returned"

\* After the finally clause: run() returns when no exception is in flight
\* and re-raises it otherwise
FinallyExit(e) == IF e = "none" THEN "returned" ELSE "raised"

-----------------------------------------------------------------------------
\* with sync_playwright() as playwright:  (line 32)
Enter ==
    /\ pc = "enter"
    /\ \/ /\ driver' = "running"
          /\ pc' = "launch"
          /\ UNCHANGED exc
       \/ /\ pc' = "crashed"
          /\ exc' = "Error"
          /\ UNCHANGED driver
    /\ UNCHANGED <<waited, browser, contexts, pages, launches, closes,
                   failedAt, executed, typed, shots, page, rootSeen>>

\* Step 1: browser = playwright.chromium.launch(headless=True)
Launch ==
    /\ pc = "launch"
    /\ \/ /\ Succeed(1)
          /\ browser' = "open"
          /\ launches' = launches + 1
       \/ /\ \E e \in {"Error", "TimeoutError"} : Raise(1, e)
          /\ UNCHANGED <<browser, launches>>
    /\ UNCHANGED <<driver, contexts, pages, closes, typed, shots, page, rootSeen>>

\* Step 2, first half: context = browser.new_context()
NewContext ==
    /\ pc = "new_context"
    /\ \/ /\ pc' = NextPc(pc)
          /\ contexts' = contexts + 1
          /\ UNCHANGED <<waited, executed, exc, failedAt>>
       \/ /\ Raise(2, "Error")
          /\ UNCHANGED contexts
    /\ UNCHANGED <<driver, browser, pages, launches, closes, typed, shots,
                   page, rootSeen>>

\* Step 2, second half: page = context.new_page()
NewPage ==
    /\ pc = "new_page"
    /\ \/ /\ Succeed(2)
          /\ pages' = pages + 1
          /\ page' = Blank
       \/ /\ Raise(2, "Error")
          /\ UNCHANGED <<pages, page>>
    /\ UNCHANGED <<driver, browser, contexts, launches, closes, typed, shots,
                   rootSeen>>

\* Step 3: page.goto("http://localhost:3002/login")
Goto ==
    /\ pc = "goto"
    /\ \/ /\ Succeed(3)
          /\ page' \in AppPages
       \/ /\ \E e \in {"Error", "TimeoutError"} : Raise(3, e)
          /\ UNCHANGED page
    /\ UNCHANGED <<driver, browser, contexts, pages, launches, closes, typed,
                   shots, rootSeen>>

\* A locator action (fill or click) of step k on locator loc
LocatorAction(k, loc) ==
    LET r == Resolve(loc, ActionTimeout) IN
    \/ r = "hit" /\ Succeed(k)
    \/ r = "wait" /\ KeepWaiting
    \/ r = "strict" /\ Raise(k, "Error")
    \/ r = "timeout" /\ Raise(k, "TimeoutError")

\* Step 4: page.get_by_placeholder("Username").fill("admin")
FillUsername ==
    /\ pc = "fill_username"
    /\ LocatorAction(4, "ph_Username")
    /\ typed' = IF Resolve("ph_Username", ActionTimeout) = "hit"
                THEN Append(typed, <<"Username", "admin">>) ELSE typed
    /\ UNCHANGED <<driver, browser, contexts, pages, launches, closes, shots,
                   page, rootSeen>>

\* Step 5: page.get_by_placeholder("Password").fill("admin123")
FillPassword ==
    /\ pc = "fill_password"
    /\ LocatorAction(5, "ph_Password")
    /\ typed' = IF Resolve("ph_Password", ActionTimeout) = "hit"
                THEN Append(typed, <<"Password", "admin123">>) ELSE typed
    /\ UNCHANGED <<driver, browser, contexts, pages, launches, closes, shots,
                   page, rootSeen>>

\* Step 6: page.get_by_role("button", name="Login").click()
ClickLogin ==
    /\ pc = "click_login"
    /\ LocatorAction(6, "btn_Login")
    /\ rootSeen' = IF Resolve("btn_Login", ActionTimeout) = "hit"
                   THEN page.url = RootUrl ELSE rootSeen
    /\ UNCHANGED <<driver, browser, contexts, pages, launches, closes, typed,
                   shots, page>>

\* Step 7: expect(page).to_have_url("http://localhost:3002/", timeout=10000)
ExpectUrl ==
    /\ pc = "expect_url"
    /\ IF UrlMatches(RootUrl) THEN Succeed(7)
       ELSE IF waited + Tick <= UrlTimeout THEN KeepWaiting
       ELSE Raise(7, "AssertionError")
    /\ UNCHANGED <<driver, browser, contexts, pages, launches, closes, typed,
                   shots, page, rootSeen>>

\* expect(locator).to_be_visible() of step k
ExpectVisible(k, loc) ==
    LET r == Resolve(loc, ExpectTimeout) IN
    \/ r = "hit" /\ Succeed(k)
    \/ r = "wait" /\ KeepWaiting
    \/ r = "strict" /\ \E e \in {"Error", "AssertionError"} : Raise(k, e)
    \/ r = "timeout" /\ Raise(k, "AssertionError")

\* Step 8: expect(page.get_by_text(<dashboard label>)).to_be_visible()
ExpectDashboard ==
    /\ pc = "expect_dashboard"
    /\ ExpectVisible(8, "txt_Dashboard")
    /\ UNCHANGED <<driver, browser, contexts, pages, launches, closes, typed,
                   shots, page, rootSeen>>

\* Step 9: page.get_by_role("link", name=<user management>).click()
ClickUsers ==
    /\ pc = "click_users"
    /\ LocatorAction(9, "lnk_Users")
    /\ UNCHANGED <<driver, browser, contexts, pages, launches, closes, typed,
                   shots, page, rootSeen>>

\* Step 10: expect(page.get_by_role("heading", name="User Management")).to_be_visible()
ExpectUM ==
    /\ pc = "expect_um"
    /\ ExpectVisible(10, "h_UserManagement")
    /\ UNCHANGED <<driver, browser, contexts, pages, launches, closes, typed,
                   shots, page, rootSeen>>

\* Step 11: page.screenshot(path=".../user-management-page.png")
ShotUM ==
    /\ pc = "shot_um"
    /\ \/ /\ Succeed(11)
          /\ shots' = Append(shots, UserShotOptions)
       \/ /\ \E e \in {"Error", "TimeoutError"} : Raise(11, e)
          /\ UNCHANGED shots
    /\ UNCHANGED <<driver, browser, contexts, pages, launches, closes, typed,
                   page, rootSeen>>

\* Step 12: page.get_by_role("link", name=<role management>).click()
ClickRoles ==
    /\ pc = "click_roles"
    /\ LocatorAction(12, "lnk_Roles")
    /\ UNCHANGED <<driver, browser, contexts, pages, launches, closes, typed,
                   shots, page, rootSeen>>

\* Step 13: expect(page.get_by_role("heading", name="Role Management")).to_be_visible()
ExpectRM ==
    /\ pc = "expect_rm"
    /\ ExpectVisible(13, "h_RoleManagement")
    /\ UNCHANGED <<driver, browser, contexts, pages, launches, closes, typed,
                   shots, page, rootSeen>>

\* Step 14: page.screenshot(path=".../role-management-page.png")
ShotRM ==
    /\ pc = "shot_rm"
    /\ \/ /\ Succeed(14)
          /\ shots' = Append(shots, RoleShotOptions)
       \/ /\ \E e \in {"Error", "TimeoutError"} : Raise(14, e)
          /\ UNCHANGED shots
    /\ UNCHANGED <<driver, browser, contexts, pages, launches, closes, typed,
                   page, rootSeen>>

\* finally: browser.close(), then run() returns or re-raises
Finally ==
    /\ pc = "finally"
    /\ CloseBrowser
    /\ pc' = FinallyExit(exc)
    /\ UNCHANGED <<waited, driver, launches, exc, failedAt, executed, typed,
                   shots, rootSeen>>

\* Leaving the with block (line 32-33) after run() returned or raised: the
\* driver is stopped, which ends a browser process that is still running
Exit ==
    /\ pc \in {"returned", "raised"}
    /\ pc' = IF pc = "returned" THEN "done" ELSE "crashed"
    /\ driver' = "stopped"
    /\ browser' = IF browser = "open" THEN "killed" ELSE browser
    /\ contexts' = 0
    /\ pages' = 0
    /\ page' = Blank
    /\ UNCHANGED <<waited, launches, closes, exc, failedAt, executed, typed,
                   shots, rootSeen>>

\* The target application changes what the page shows (a navigation, a
\* redirect, a re-render), at any moment after the first navigation
AppRender ==
    /\ browser = "open"
    /\ pages > 0
    /\ pc \in (TryBlock \ {"goto"}) \cup {"finally"}
    /\ page' \in AppPages \ {page}
    /\ rootSeen' = IF pc = "expect_url"
                   THEN rootSeen \/ page'.url = RootUrl ELSE rootSeen
    /\ UNCHANGED <<pc, waited, driver, browser, contexts, pages, launches,
                   closes, exc, failedAt, executed, typed, shots>>

Runner ==
    \/ Enter \/ Launch \/ NewContext \/ NewPage \/ Goto
    \/ FillUsername \/ FillPassword \/ ClickLogin
    \/ ExpectUrl \/ ExpectDashboard
    \/ ClickUsers \/ ExpectUM \/ ShotUM
    \/ ClickRoles \/ ExpectRM \/ ShotRM
    \/ Finally \/ Exit

Next == Runner \/ AppRender

Spec == Init /\ [][Next]_vars

\* The script is a single thread that always takes its next step; the
\* application is under no obligation to do anything
FairSpec == Spec /\ WF_vars(Runner)

-----------------------------------------------------------------------------
TypeOK ==
    /\ pc \in {"enter", "returned", "raised", "done", "crashed"}
              \cup {Script[i] : i \in DOMAIN Script}
    /\ waited \in 0..ActionTimeout
    /\ driver \in {"off", "running", "stopped"}
    /\ browser \in {"none", "open", "closed", "killed"}
    /\ contexts \in 0..2 /\ pages \in 0..2
    /\ launches \in 0..2 /\ closes \in 0..2
    /\ exc \in {"none", "Error", "TimeoutError", "AssertionError"}
    /\ failedAt \in 0..14
    /\ page \in AppPages \cup {Blank}
    /\ rootSeen \in BOOLEAN

-----------------------------------------------------------------------------
\* Vocabulary of the properties

\* run() has ended, by returning or by raising
RunEnded == pc \in {"returned", "raised"} \/ driver = "stopped"

\* The steps that returned without raising
Passed == {executed[i] : i \in DOMAIN executed} \ {failedAt}

HasShot(path) == \E i \in DOMAIN shots : shots[i].path = path

AllSteps == <<1, 2, 3, 4, 5, 6, 7, 8, 9, 10, 11, 12, 13, 14>>

-----------------------------------------------------------------------------
\* C1: when run() has ended and the failure, if any, was in one of the page
\* steps 3-14, exactly one browser was launched and exactly one close was made.
C1_OneLaunchOneClose ==
    (RunEnded /\ failedAt \notin {1, 2}) => (launches = 1 /\ closes = 1)

C1_Witness ==
    /\ pc = "raised"
    /\ failedAt = 10
    /\ exc = "AssertionError"
    /\ launches = 1
    /\ closes = 1

\* C2: whenever run() has ended, every browser that was launched has been
\* closed by run(), a failure of step 2 included.
C2_ClosedOnEveryExit == RunEnded => closes = launches

\* C3: the steps executed are a prefix of 1..14, only the last of them can be
\* the one that failed, and a statement of step k is reached only when steps
\* 1..k-1 have all returned.
C3_PrefixOfFixedSequence ==
    /\ Len(executed) <= 14
    /\ \A i \in DOMAIN executed : executed[i] = i
    /\ failedAt # 0 => failedAt = Len(executed)
    /\ pc \in DOMAIN StepOf => (failedAt = 0 /\ Len(executed) = StepOf[pc] - 1)

C3_Witness ==
    /\ failedAt = 9
    /\ executed = <<1, 2, 3, 4, 5, 6, 7, 8, 9>>
    /\ pc = "raised"

\* C4: once a step among 3-14 has failed, no further step runs, nothing but
\* the close of the browser is done, the failure stays in flight and run()
\* ends by raising it, never by returning.
C4_FailureAbortsAndPropagates ==
    [][ failedAt' \in 3..14 =>
          /\ exc' # "none"
          /\ pc' \in {"finally", "raised", "crashed"}
          /\ Len(executed') = failedAt'
          /\ pc' # "finally" => closes' = 1
          /\ failedAt \in 3..14 =>
                /\ exc' = exc
                /\ failedAt' = failedAt
                /\ executed' = executed
                /\ shots' = shots
                /\ typed' = typed
                /\ launches' = launches ]_vars

C4_Witness ==
    /\ pc = "crashed"
    /\ failedAt = 5
    /\ exc = "TimeoutError"
    /\ executed = <<1, 2, 3, 4, 5>>
    /\ closes = 1

\* C5: the user-management screenshot is written only after the root-URL, the
\* dashboard and the 'User Management' assertions have passed; the
\* role-management screenshot only after, in addition, the user-management
\* screenshot was written and the 'Role Management' assertion passed.
C5_ScreenshotIsEvidence ==
    /\ HasShot(UserShotPath) => {7, 8, 10} \subseteq Passed
    /\ HasShot(RoleShotPath) => (HasShot(UserShotPath) /\ 13 \in Passed)

C5_Witness ==
    /\ HasShot(UserShotPath)
    /\ HasShot(RoleShotPath)
    /\ {7, 8, 10, 13} \subseteq Passed

\* C6 as stated: at the end of a run either both screenshots were written and
\* the run returned normally, or neither was written and the run failed.
C6_NoPartialSuccess ==
    RunEnded =>
        \/ /\ HasShot(UserShotPath) /\ HasShot(RoleShotPath)
           /\ failedAt = 0 /\ executed = AllSteps
        \/ /\ ~HasShot(UserShotPath) /\ ~HasShot(RoleShotPath)
           /\ failedAt # 0

\* C6 as amended: at the end of a run both screenshots were written exactly
\* when all fourteen steps completed and the run returned normally; when the
\* run failed, the role-management screenshot was not written and the
\* user-management screenshot was written exactly when the failure was at
\* step 12, 13 or 14.
C6_Amended ==
    RunEnded =>
        /\ (HasShot(UserShotPath) /\ HasShot(RoleShotPath))
              <=> (failedAt = 0 /\ executed = AllSteps /\ exc = "none")
        /\ failedAt # 0 =>
              /\ ~HasShot(RoleShotPath)
              /\ HasShot(UserShotPath) <=> failedAt \in 12..14

C6_Witness ==
    /\ pc = "raised"
    /\ failedAt = 13
    /\ HasShot(UserShotPath)
    /\ ~HasShot(RoleShotPath)

\* C7: when the Login click was made and the address was never the
\* application root afterwards, the run ends with an assertion failure at
\* step 7: no later step ran, no screenshot was written, the browser is closed.
C7_RejectedLoginFailsAtStep7 ==
    (RunEnded /\ 6 \in Passed /\ ~rootSeen) =>
        /\ failedAt = 7
        /\ exc = "AssertionError"
        /\ executed = <<1, 2, 3, 4, 5, 6, 7>>
        /\ shots = << >>
        /\ pc \in {"raised", "crashed"}
        /\ browser = "closed"
        /\ closes = 1

C7_Witness ==
    /\ pc = "raised"
    /\ 6 \in Passed
    /\ ~rootSeen
    /\ failedAt = 7
    /\ browser = "closed"

\* C8: at most one browser, one context and one page ever exist; a context or
\* a page exists only while the browser is open, and every statement that
\* creates them or operates on the page runs while the browser is open.
C8_LifetimesNested ==
    /\ launches <= 1
    /\ contexts <= 1
    /\ pages <= 1
    /\ pages > 0 => contexts > 0
    /\ contexts > 0 => browser = "open"
    /\ pc \in {"new_context", "new_page"} => browser = "open"
    /\ pc \in TryBlock => (browser = "open" /\ contexts = 1 /\ pages = 1)

C8_Witness ==
    /\ pc = "returned"
    /\ browser = "closed"
    /\ contexts = 0
    /\ pages = 0
    /\ Len(executed) = 14

\* C9: under fair scheduling of the runner, every run that starts eventually
\* ends with every browser it launched closed.
C9_EndsWithBrowserClosed ==
    (driver = "running") ~> (RunEnded /\ closes = launches)

\* C10 as stated: the screenshot of step 11 is issued with the full-page
\* option set.
C10_UserShotFullPage ==
    \A i \in DOMAIN shots :
        shots[i].path = UserShotPath => shots[i].full_page = TRUE

\* C10 as amended: the screenshot of step 11 is issued without the full-page
\* option, which keeps its default (viewport only), like the one of step 14.
C10_Amended ==
    \A i \in DOMAIN shots :
        shots[i].path = UserShotPath => shots[i].full_page = FALSE

C10_Witness ==
    /\ pc = "click_roles"
    /\ Len(shots) = 1
    /\ shots[1].path = UserShotPath

====
